---- MODULE Spec2Model ----
(***************************************************************************)
(* honkpack (src/main.c): a streaming RLE / literal-block compressor and   *)
(* its decompressor.  main() selects one of two byte-at-a-time state       *)
(* machines, feeds it every input byte and calls its finalize function at  *)
(* end of input.  The model keeps the program's state (honk_state_t), the  *)
(* output stream, stderr, and the exit status of the process.              *)
(***************************************************************************)
EXTENDS Integers, Sequences, FiniteSets, TLC

\* ------------------------------------------------------------ constants

\* #define MAX_BLOCK_SIZE ((size_t)127)
MAX_BLOCK_SIZE == 127

\* exit(EXIT_FAILURE) in write_byte and main; "return 0" at the end of main.
EXIT_FAILURE == 1
EXIT_SUCCESS == 0

\* size_t is 64 bits wide; TLC's integers are 32 bits wide, so the value an
\* unsigned decrement of 0 wraps to is represented by the largest TLC integer.
SIZE_MAX == 2147483646 + 1

\* ------------------------------------------------------------ bounds

\* Longest deterministic pattern prefix of an input (general families).
MaxPattern == 130
\* Longest freely chosen tail after the pattern (compress families).
MaxTail == 3
\* Longest freely chosen decompress input.
MaxFree == 4
\* Longest input of the whole-pattern families (no free tail).
MaxWhole == 300
\* Longest freely chosen tail after a long pattern (decompress, failing sink).
MaxFillTail == 1
\* Largest capacity of a sink that stops accepting bytes.
MaxCap == 3

\* ------------------------------------------------------------ bytes

\* Input bytes of the compressor: 0x00, 'A', and 0x81 (bit 7 set).
CompressBytes == {0, 65, 129}
\* Input bytes of the decompressor: the degenerate status bytes 0x00 and 0x80,
\* literal statuses of 1, 2 and 5 (0x01, 0x02, 0x05), run statuses of 1, 3
\* and 127 (0x81, 0x83, 0xFF) and 'A' (as a status byte: a literal block of
\* 65).
DecompressBytes == {0, 128, 1, 2, 5, 129, 131, 255, 65}
\* What the uninitialised members of "honk_state_t state" on main's stack may
\* hold (last_byte and the block bytes; decompress_bytes_count).
GarbageBytes == {0, 129}

\* A faulty variant of LowBits: the length is taken from the whole byte.
LowBits_NoMask(b) == b

\* uint8_t & 0x7F
LowBits(b) == b % 128
\* uint8_t & (1 << 7)
Bit7(b) == (b \div 128) % 2 = 1
\* uint8_t | (1 << 7)
SetBit7(b) == IF Bit7(b) THEN b ELSE b + 128

\* ------------------------------------------------------------ state

VARIABLES
    is_compress_mode,   \* main: the mode flag
    state,              \* main: honk_state_t state (the active union member)
    io,                 \* the output stream, stderr, and whether exit() ran
    pc,                 \* main: "loop", "returned" (return 0) or "exited"
    exit_status,        \* the process's exit status once pc # "loop"
    consumed,           \* the input bytes processed so far
    family,             \* the family of inputs this run draws from
    pat_len             \* how many bytes of consumed are pattern bytes

vars == <<is_compress_mode, state, io, pc, exit_status, consumed, family, pat_len>>

\* ------------------------------------------------------------ output sink

\* How many more bytes the output stream accepts.  A limited sink models an
\* output that starts failing (disk full, closed pipe) after cap bytes.
SinkRoom(o) ==
    IF o.sink.limited THEN o.sink.cap - Len(o.output) ELSE SIZE_MAX

\* The stream before the first write.
NewIo(sink) ==
    [output |-> <<>>, stderr |-> <<>>, calls |-> <<>>, sink |-> sink,
     exited |-> FALSE]

\* write_byte: fputc; on EOF print the error and exit(EXIT_FAILURE).
\* Once exit() has run nothing executes any more.
write_byte(o, new_byte) ==
    IF o.exited THEN o
    ELSE IF SinkRoom(o) > 0
         THEN [o EXCEPT !.output = Append(@, new_byte)]
         ELSE [o EXCEPT !.stderr = Append(@, "write error"),
                        !.exited = TRUE]

\* A faulty variant of StatusByte: bit 7 is never set.
StatusByte_NoRunFlag(is_rle, bytes_count) == bytes_count % 256

\* write_status_byte: (uint8_t)bytes_count, bit 7 set for a run.
StatusByte(is_rle, bytes_count) ==
    IF is_rle THEN SetBit7(bytes_count % 256) ELSE bytes_count % 256

write_status_byte(o, is_rle, bytes_count) ==
    write_byte(o, StatusByte(is_rle, bytes_count))

\* The first n bytes of the block array (indexed from 0 as in the source).
BlockPrefix(block, n) == [i \in 1..n |-> block[i - 1]]

\* The record of one call of write_rle_run or write_block (history only).
LogCall(o, is_rle, count, bytes) ==
    IF o.exited THEN o
    ELSE [o EXCEPT !.calls = Append(@, [is_rle |-> is_rle, count |-> count,
                                        bytes |-> bytes])]

\* write_rle_run: the status byte, then the content byte once.
write_rle_run(o, byte, count) ==
    write_byte(write_status_byte(LogCall(o, TRUE, count, <<byte>>), TRUE, count),
               byte)

\* write_block: the status byte, then fwrite of count bytes; a short fwrite
\* prints the error and returns.
write_block(o, block, count) ==
    LET o1 == write_status_byte(
                  LogCall(o, FALSE, count, BlockPrefix(block, count)),
                  FALSE, count)
        n  == IF SinkRoom(o1) < count THEN SinkRoom(o1) ELSE count
        o2 == [o1 EXCEPT !.output = @ \o BlockPrefix(block, n)]
    IN  IF o1.exited THEN o1
        ELSE IF n # count
             THEN [o2 EXCEPT !.stderr = Append(@, "write error")]
             ELSE o2

\* ------------------------------------------------------------ compression

\* honk_compress_init: the (empty) block state.  last_byte and block are not
\* written: they keep whatever the stack held (g).
honk_compress_init(g) ==
    [compress_state |-> "BLOCK", compress_bytes_count |-> 0,
     last_byte |-> g, block |-> [i \in 0..(MAX_BLOCK_SIZE - 1) |-> g]]

\* Faulty variants of CompressRle.
\* The run is flushed one byte late: at 128 instead of 127 bytes.
CompressRle_FullLate(st, o, new_byte) ==
    IF new_byte # st.last_byte
    THEN [state |-> [st EXCEPT !.last_byte = new_byte,
                               !.block[0] = new_byte,
                               !.compress_bytes_count = 1,
                               !.compress_state = "BLOCK"],
          io |-> write_rle_run(o, st.last_byte, st.compress_bytes_count)]
    ELSE IF st.compress_bytes_count + 1 = MAX_BLOCK_SIZE + 1
         THEN [state |-> [st EXCEPT !.compress_bytes_count = 0,
                                    !.compress_state = "BLOCK"],
               io |-> write_rle_run(o, st.last_byte, MAX_BLOCK_SIZE + 1)]
         ELSE [state |-> [st EXCEPT !.compress_bytes_count = @ + 1],
               io |-> o]

\* The byte that closes the run is not stored as the first block byte.
CompressRle_BlockNotReset(st, o, new_byte) ==
    IF new_byte # st.last_byte
    THEN [state |-> [st EXCEPT !.last_byte = new_byte,
                               !.compress_bytes_count = 1,
                               !.compress_state = "BLOCK"],
          io |-> write_rle_run(o, st.last_byte, st.compress_bytes_count)]
    ELSE IF st.compress_bytes_count + 1 = MAX_BLOCK_SIZE
         THEN [state |-> [st EXCEPT !.compress_bytes_count = 0,
                                    !.compress_state = "BLOCK"],
               io |-> write_rle_run(o, st.last_byte, MAX_BLOCK_SIZE)]
         ELSE [state |-> [st EXCEPT !.compress_bytes_count = @ + 1],
               io |-> o]

\* case HONK_COMPRESS_STATE_RLE
CompressRle(st, o, new_byte) ==
    IF new_byte # st.last_byte
    THEN [state |-> [st EXCEPT !.last_byte = new_byte,
                               !.block[0] = new_byte,
                               !.compress_bytes_count = 1,
                               !.compress_state = "BLOCK"],
          io |-> write_rle_run(o, st.last_byte, st.compress_bytes_count)]
    ELSE IF st.compress_bytes_count + 1 = MAX_BLOCK_SIZE
         THEN [state |-> [st EXCEPT !.compress_bytes_count = 0,
                                    !.compress_state = "BLOCK"],
               io |-> write_rle_run(o, st.last_byte, MAX_BLOCK_SIZE)]
         ELSE [state |-> [st EXCEPT !.compress_bytes_count = @ + 1],
               io |-> o]

\* Faulty variants of CompressBlock.
\* The byte that opens the run is written with the closed block too.
CompressBlock_KeepsLast(st, o, new_byte) ==
    IF st.compress_bytes_count > 0 /\ new_byte = st.last_byte
    THEN LET actual_bytes_count == st.compress_bytes_count
         IN  [state |-> [st EXCEPT !.compress_bytes_count = 2,
                                   !.compress_state = "RLE"],
              io |-> IF actual_bytes_count > 0
                     THEN write_block(o, st.block, actual_bytes_count)
                     ELSE o]
    ELSE LET stored == [st.block EXCEPT ![st.compress_bytes_count] = new_byte]
         IN  IF st.compress_bytes_count + 1 = MAX_BLOCK_SIZE
             THEN [state |-> [st EXCEPT !.block = stored,
                                        !.compress_bytes_count = 0],
                   io |-> write_block(o, stored, MAX_BLOCK_SIZE)]
             ELSE [state |-> [st EXCEPT !.block = stored,
                                        !.compress_bytes_count = @ + 1,
                                        !.last_byte = new_byte],
                   io |-> o]

\* The closed block is written even when it is empty.
CompressBlock_NoEmptyCheck(st, o, new_byte) ==
    IF st.compress_bytes_count > 0 /\ new_byte = st.last_byte
    THEN LET actual_bytes_count == st.compress_bytes_count - 1
         IN  [state |-> [st EXCEPT !.compress_bytes_count = 2,
                                   !.compress_state = "RLE"],
              io |-> IF TRUE
                     THEN write_block(o, st.block, actual_bytes_count)
                     ELSE o]
    ELSE LET stored == [st.block EXCEPT ![st.compress_bytes_count] = new_byte]
         IN  IF st.compress_bytes_count + 1 = MAX_BLOCK_SIZE
             THEN [state |-> [st EXCEPT !.block = stored,
                                        !.compress_bytes_count = 0],
                   io |-> write_block(o, stored, MAX_BLOCK_SIZE)]
             ELSE [state |-> [st EXCEPT !.block = stored,
                                        !.compress_bytes_count = @ + 1,
                                        !.last_byte = new_byte],
                   io |-> o]

\* The run is opened with a count of 1: the retracted byte is forgotten.
CompressBlock_RunStartsAtOne(st, o, new_byte) ==
    IF st.compress_bytes_count > 0 /\ new_byte = st.last_byte
    THEN LET actual_bytes_count == st.compress_bytes_count - 1
         IN  [state |-> [st EXCEPT !.compress_bytes_count = 1,
                                   !.compress_state = "RLE"],
              io |-> IF actual_bytes_count > 0
                     THEN write_block(o, st.block, actual_bytes_count)
                     ELSE o]
    ELSE LET stored == [st.block EXCEPT ![st.compress_bytes_count] = new_byte]
         IN  IF st.compress_bytes_count + 1 = MAX_BLOCK_SIZE
             THEN [state |-> [st EXCEPT !.block = stored,
                                        !.compress_bytes_count = 0],
                   io |-> write_block(o, stored, MAX_BLOCK_SIZE)]
             ELSE [state |-> [st EXCEPT !.block = stored,
                                        !.compress_bytes_count = @ + 1,
                                        !.last_byte = new_byte],
                   io |-> o]

\* The block is flushed one byte early: at 126 instead of 127 bytes.
CompressBlock_FullEarly(st, o, new_byte) ==
    IF st.compress_bytes_count > 0 /\ new_byte = st.last_byte
    THEN LET actual_bytes_count == st.compress_bytes_count - 1
         IN  [state |-> [st EXCEPT !.compress_bytes_count = 2,
                                   !.compress_state = "RLE"],
              io |-> IF actual_bytes_count > 0
                     THEN write_block(o, st.block, actual_bytes_count)
                     ELSE o]
    ELSE LET stored == [st.block EXCEPT ![st.compress_bytes_count] = new_byte]
         IN  IF st.compress_bytes_count + 1 = MAX_BLOCK_SIZE - 1
             THEN [state |-> [st EXCEPT !.block = stored,
                                        !.compress_bytes_count = 0],
                   io |-> write_block(o, stored, MAX_BLOCK_SIZE - 1)]
             ELSE [state |-> [st EXCEPT !.block = stored,
                                        !.compress_bytes_count = @ + 1,
                                        !.last_byte = new_byte],
                   io |-> o]

\* The byte added to the block is not remembered as the last byte.
CompressBlock_LastNotRemembered(st, o, new_byte) ==
    IF st.compress_bytes_count > 0 /\ new_byte = st.last_byte
    THEN LET actual_bytes_count == st.compress_bytes_count - 1
         IN  [state |-> [st EXCEPT !.compress_bytes_count = 2,
                                   !.compress_state = "RLE"],
              io |-> IF actual_bytes_count > 0
                     THEN write_block(o, st.block, actual_bytes_count)
                     ELSE o]
    ELSE LET stored == [st.block EXCEPT ![st.compress_bytes_count] = new_byte]
         IN  IF st.compress_bytes_count + 1 = MAX_BLOCK_SIZE
             THEN [state |-> [st EXCEPT !.block = stored,
                                        !.compress_bytes_count = 0],
                   io |-> write_block(o, stored, MAX_BLOCK_SIZE)]
             ELSE [state |-> [st EXCEPT !.block = stored,
                                        !.compress_bytes_count = @ + 1],
                   io |-> o]

\* case HONK_COMPRESS_STATE_BLOCK
CompressBlock(st, o, new_byte) ==
    IF st.compress_bytes_count > 0 /\ new_byte = st.last_byte
    THEN LET actual_bytes_count == st.compress_bytes_count - 1
         IN  [state |-> [st EXCEPT !.compress_bytes_count = 2,
                                   !.compress_state = "RLE"],
              io |-> IF actual_bytes_count > 0
                     THEN write_block(o, st.block, actual_bytes_count)
                     ELSE o]
    ELSE LET stored == [st.block EXCEPT ![st.compress_bytes_count] = new_byte]
         IN  IF st.compress_bytes_count + 1 = MAX_BLOCK_SIZE
             THEN [state |-> [st EXCEPT !.block = stored,
                                        !.compress_bytes_count = 0],
                   io |-> write_block(o, stored, MAX_BLOCK_SIZE)]
             ELSE [state |-> [st EXCEPT !.block = stored,
                                        !.compress_bytes_count = @ + 1,
                                        !.last_byte = new_byte],
                   io |-> o]

\* honk_compress_process_byte
honk_compress_process_byte(st, o, new_byte) ==
    IF st.compress_state = "RLE"
    THEN CompressRle(st, o, new_byte)
    ELSE CompressBlock(st, o, new_byte)

\* A faulty variant of honk_compress_finalize: the pending block is written
\* even when it is empty.
honk_compress_finalize_NoEmptyCheck(st, o) ==
    IF st.compress_state = "RLE"
    THEN write_rle_run(o, st.last_byte, st.compress_bytes_count)
    ELSE write_block(o, st.block, st.compress_bytes_count)

\* A faulty variant of honk_compress_finalize: the last pending byte is taken
\* not to be part of the block, as when a block is closed by a repeated byte.
honk_compress_finalize_DropsLast(st, o) ==
    IF st.compress_state = "RLE"
    THEN write_rle_run(o, st.last_byte, st.compress_bytes_count)
    ELSE IF st.compress_bytes_count - 1 > 0
         THEN write_block(o, st.block, st.compress_bytes_count - 1)
         ELSE o

\* honk_compress_finalize: flush the pending run or the pending block.
honk_compress_finalize(st, o) ==
    IF st.compress_state = "RLE"
    THEN write_rle_run(o, st.last_byte, st.compress_bytes_count)
    ELSE IF st.compress_bytes_count > 0
         THEN write_block(o, st.block, st.compress_bytes_count)
         ELSE o

\* ------------------------------------------------------------ decompression

\* honk_decompress_init: the status state; decompress_bytes_count is not
\* written (g).
honk_decompress_init(g) ==
    [decompress_state |-> "STATUS", decompress_bytes_count |-> g]

\* A faulty variant of WriteRepeated: the loop runs one time too few.
WriteRepeated_OneShort(o, new_byte, n) ==
    LET m == IF n = 0 THEN 0 ELSE n - 1
        k == IF SinkRoom(o) < m THEN SinkRoom(o) ELSE m
        written == [o EXCEPT !.output = @ \o [i \in 1..k |-> new_byte]]
    IN  IF o.exited THEN o
        ELSE IF k < m THEN write_byte(written, new_byte) ELSE written

\* The loop of case HONK_DECOMPRESS_STATE_RLE: n times write_byte.  The
\* bytes the sink has room for are written; the first write_byte it rejects
\* exits.
WriteRepeated(o, new_byte, n) ==
    LET k == IF SinkRoom(o) < n THEN SinkRoom(o) ELSE n
        written == [o EXCEPT !.output = @ \o [i \in 1..k |-> new_byte]]
    IN  IF o.exited THEN o
        ELSE IF k < n THEN write_byte(written, new_byte) ELSE written

\* A faulty variant of Decrement: the count is tested before it is reduced,
\* so a block is left one payload byte late.
Decrement_Late(n) == IF n = 1 THEN 1 ELSE IF n = 0 THEN SIZE_MAX ELSE n - 1

\* --state->decompress_bytes_count on a size_t
Decrement(n) == IF n = 0 THEN SIZE_MAX ELSE n - 1

\* A faulty variant of honk_decompress_process_byte: a status byte with
\* length 0 is not treated specially.
honk_decompress_process_byte_NoZeroCase(st, o, new_byte) ==
    CASE st.decompress_state = "STATUS" ->
           [state |-> [decompress_bytes_count |-> LowBits(new_byte),
                       decompress_state |->
                           IF Bit7(new_byte) THEN "RLE" ELSE "BLOCK"],
            io |-> o]
      [] st.decompress_state = "RLE" ->
           [state |-> [st EXCEPT !.decompress_state = "STATUS"],
            io |-> WriteRepeated(o, new_byte, st.decompress_bytes_count)]
      [] st.decompress_state = "BLOCK" ->
           LET n == Decrement(st.decompress_bytes_count)
           IN  [state |-> [decompress_bytes_count |-> n,
                           decompress_state |->
                               IF n = 0 THEN "STATUS" ELSE "BLOCK"],
                io |-> write_byte(o, new_byte)]

\* honk_decompress_process_byte
honk_decompress_process_byte(st, o, new_byte) ==
    CASE st.decompress_state = "STATUS" ->
           LET n == LowBits(new_byte)
           IN  [state |-> [decompress_bytes_count |-> n,
                           decompress_state |->
                               IF n = 0 THEN "STATUS"
                               ELSE IF Bit7(new_byte) THEN "RLE" ELSE "BLOCK"],
                io |-> o]
      [] st.decompress_state = "RLE" ->
           [state |-> [st EXCEPT !.decompress_state = "STATUS"],
            io |-> WriteRepeated(o, new_byte, st.decompress_bytes_count)]
      [] st.decompress_state = "BLOCK" ->
           LET n == Decrement(st.decompress_bytes_count)
           IN  [state |-> [decompress_bytes_count |-> n,
                           decompress_state |->
                               IF n = 0 THEN "STATUS" ELSE "BLOCK"],
                io |-> write_byte(o, new_byte)]

\* A faulty variant of honk_decompress_finalize: only an unfinished block is
\* reported, not a run whose payload byte is missing.
honk_decompress_finalize_OnlyBlock(st, o) ==
    IF st.decompress_state = "BLOCK"
    THEN [o EXCEPT !.stderr = Append(@, "bad format")]
    ELSE o

\* honk_decompress_finalize: validate the state; a bad state prints the
\* format error and returns.
honk_decompress_finalize(st, o) ==
    IF st.decompress_state # "STATUS"
    THEN [o EXCEPT !.stderr = Append(@, "bad format")]
    ELSE o

\* ------------------------------------------------------------ inputs

\* An input is a deterministic pattern prefix followed by a freely chosen
\* tail; the family fixes the pattern and the longest prefix and tail.
AltCycle == <<0, 65, 129>>
FillCycle == <<65, 128, 0>>

\* The i-th byte (from 1) of a family's pattern:
\*   "run"    'A' repeated;
\*   "alt"    0x00, 'A', 0x81 in turn: no two adjacent bytes are equal;
\*   "lit127" the status byte of a literal block of 127, then payload bytes.
PatternByte(kind, i) ==
    CASE kind = "run" -> 65
      [] kind = "alt" -> AltCycle[((i - 1) % 3) + 1]
      [] kind = "lit127" ->
           IF i = 1 THEN MAX_BLOCK_SIZE ELSE FillCycle[((i - 2) % 3) + 1]
      [] OTHER -> 0

Family(kind, pat_max, tail_max) ==
    [kind |-> kind, pat_max |-> pat_max, tail_max |-> tail_max]

InPattern == pat_len = Len(consumed) /\ pat_len < family.pat_max

TailBytes == IF is_compress_mode THEN CompressBytes ELSE DecompressBytes

\* The bytes the input may continue with, each with the pattern length after
\* it.  A tail does not start with the byte that continues the pattern (that
\* input is the one with the longer prefix).
Choices ==
    {<<PatternByte(family.kind, pat_len + 1), pat_len + 1>> :
        x \in IF InPattern THEN {1} ELSE {}}
    \cup
    {<<b, pat_len>> :
        b \in {c \in TailBytes :
                 /\ Len(consumed) - pat_len < family.tail_max
                 /\ ~(InPattern /\ c = PatternByte(family.kind, pat_len + 1))}}

\* ------------------------------------------------------------ main

Unlimited == [limited |-> FALSE, cap |-> 0]
Limited(cap) == [limited |-> TRUE, cap |-> cap]

\* main up to the read loop: the mode flag, funcs.init_func(&state).
Start(mode, fam, g, sink) ==
    /\ is_compress_mode = mode
    /\ state = IF mode THEN honk_compress_init(g) ELSE honk_decompress_init(g)
    /\ io = NewIo(sink)
    /\ pc = "loop"
    /\ exit_status = EXIT_SUCCESS
    /\ consumed = <<>>
    /\ family = fam
    /\ pat_len = 0

\* The outcome of a handler: the process has exited in write_byte, or the
\* handler has returned with the new state.
AfterHandler(st, o, b, np) ==
    /\ io' = o
    /\ consumed' = Append(consumed, b)
    /\ pat_len' = np
    /\ IF o.exited
       THEN /\ pc' = "exited"
            /\ exit_status' = EXIT_FAILURE
            /\ UNCHANGED state
       ELSE /\ state' = st
            /\ UNCHANGED <<pc, exit_status>>

\* The read loop in compress mode: honk_compress_process_byte on the next byte.
CompressProcessByte ==
    /\ pc = "loop"
    /\ is_compress_mode
    /\ \E c \in Choices :
         LET r == honk_compress_process_byte(state, io, c[1])
         IN  AfterHandler(r.state, r.io, c[1], c[2])
    /\ UNCHANGED <<is_compress_mode, family>>

\* The read loop in decompress mode.
DecompressProcessByte ==
    /\ pc = "loop"
    /\ ~is_compress_mode
    /\ \E c \in Choices :
         LET r == honk_decompress_process_byte(state, io, c[1])
         IN  AfterHandler(r.state, r.io, c[1], c[2])
    /\ UNCHANGED <<is_compress_mode, family>>

\* End of input without a read error: finalize, fclose, return 0.
AfterFinalize(o) ==
    /\ io' = o
    /\ pc' = IF o.exited THEN "exited" ELSE "returned"
    /\ exit_status' = IF o.exited THEN EXIT_FAILURE ELSE EXIT_SUCCESS
    /\ UNCHANGED <<is_compress_mode, state, consumed, family, pat_len>>

CompressFinalize ==
    /\ pc = "loop"
    /\ is_compress_mode
    /\ AfterFinalize(honk_compress_finalize(state, io))

DecompressFinalize ==
    /\ pc = "loop"
    /\ ~is_compress_mode
    /\ AfterFinalize(honk_decompress_finalize(state, io))

\* fread fails: ferror(input), the message, exit(EXIT_FAILURE).
ReadError ==
    /\ pc = "loop"
    /\ io' = [io EXCEPT !.stderr = Append(@, "read error"), !.exited = TRUE]
    /\ pc' = "exited"
    /\ exit_status' = EXIT_FAILURE
    /\ UNCHANGED <<is_compress_mode, state, consumed, family, pat_len>>

\* ------------------------------------------------------------ specifications

\* Both modes, a sink that accepts every byte.
Init ==
    \E g \in GarbageBytes :
        \/ \E k \in {"run", "alt"} :
               Start(TRUE, Family(k, MaxPattern, MaxTail), g, Unlimited)
        \/ Start(FALSE, Family("free", 0, MaxFree), g, Unlimited)
        \/ Start(FALSE, Family("lit127", MaxPattern, MaxFillTail), g, Unlimited)

Next ==
    \/ CompressProcessByte
    \/ CompressFinalize
    \/ DecompressProcessByte
    \/ DecompressFinalize
    \/ ReadError

Spec == Init /\ [][Next]_vars

\* Compress mode on whole patterns (no free tail), up to MaxWhole bytes.
InitWhole ==
    \E g \in GarbageBytes, k \in {"run", "alt"} :
        Start(TRUE, Family(k, MaxWhole, 0), g, Unlimited)

NextCompress ==
    \/ CompressProcessByte
    \/ CompressFinalize
    \/ ReadError

SpecWhole == InitWhole /\ [][NextCompress]_vars

\* Both modes, a sink that rejects every write after its first cap bytes.
InitSink ==
    \E g \in GarbageBytes, cap \in 0..MaxCap :
        \/ \E k \in {"run", "alt"} :
               Start(TRUE, Family(k, MaxPattern, MaxFillTail), g, Limited(cap))
        \/ Start(TRUE, Family("free", 0, MaxTail), g, Limited(cap))
        \/ Start(FALSE, Family("free", 0, MaxFree), g, Limited(cap))

SpecSink == InitSink /\ [][Next]_vars

\* ------------------------------------------------------------ decoding a stream

\* honk_decompress_process_byte applied to bytes[lo..hi] in order, from the
\* state and stream in r.  The range is halved, and the first half is
\* evaluated before the second is entered, to keep the evaluation shallow.
RECURSIVE DecompressRange(_, _, _, _)
DecompressRange(r, bytes, lo, hi) ==
    IF lo > hi THEN r
    ELSE IF lo = hi
         THEN honk_decompress_process_byte(r.state, r.io, bytes[lo])
         ELSE LET mid == (lo + hi) \div 2
                  first == DecompressRange(r, bytes, lo, mid)
              IN  IF first.io.exited
                  THEN first
                  ELSE DecompressRange(first, bytes, mid + 1, hi)

\* A decompress session over the whole of bytes: init, every byte, finalize.
DecompressStream(bytes, g) ==
    LET r == DecompressRange([state |-> honk_decompress_init(g),
                              io |-> NewIo(Unlimited)],
                             bytes, 1, Len(bytes))
    IN  [state |-> r.state, io |-> honk_decompress_finalize(r.state, r.io)]

CompressDone == is_compress_mode /\ pc = "returned"
DecompressDone == ~is_compress_mode /\ pc = "returned"

\* ------------------------------------------------------------ claims

\* C1: round trip.  When a compress session has consumed S and finalized, the
\* bytes it wrote, fed byte by byte to a fresh decompress session, output
\* exactly S.
C1_RoundTrip ==
    CompressDone =>
        \A g \in GarbageBytes :
            DecompressStream(io.output, g).io.output = consumed

\* C1 witness: a finished session whose input is longer than one chunk and
\* was written as runs and as literal blocks.
C1_Witness ==
    /\ CompressDone
    /\ Len(consumed) > MAX_BLOCK_SIZE
    /\ \E i \in DOMAIN io.calls : io.calls[i].is_rle
    /\ \E i \in DOMAIN io.calls : ~io.calls[i].is_rle
    /\ DecompressStream(io.output, 0).io.output = consumed

\* C2: every call of write_rle_run and write_block has a count in 1..127, and
\* every status byte in the output declares that count in its low 7 bits.
C2_ChunkLengthInRange ==
    is_compress_mode =>
        \A i \in DOMAIN io.calls :
            /\ io.calls[i].count \in 1..MAX_BLOCK_SIZE
            /\ LowBits(StatusByte(io.calls[i].is_rle, io.calls[i].count))
                   = io.calls[i].count

\* C2 witness: a session that has written a chunk of the longest and one of
\* the shortest length, the last one at finalize.
C2_Witness ==
    /\ CompressDone
    /\ \E i \in DOMAIN io.calls : io.calls[i].count = MAX_BLOCK_SIZE
    /\ \E i \in DOMAIN io.calls : io.calls[i].count = 1
    /\ state.compress_bytes_count > 0

\* C3 (as claimed): in decompress mode, when the input ends while the state is
\* not the status state, the process ends with the format error and a
\* non-zero exit status.
C3_TruncatedStreamFails ==
    (DecompressDone /\ state.decompress_state # "STATUS") =>
        /\ "bad format" \in {io.stderr[i] : i \in DOMAIN io.stderr}
        /\ exit_status # EXIT_SUCCESS

\* C4 (as claimed): once the sink has rejected a write, the process has
\* exited with a failure status (so it processes and writes nothing more).
WriteRejected == "write error" \in {io.stderr[i] : i \in DOMAIN io.stderr}

C4_RejectedWriteIsFatal ==
    WriteRejected => (pc = "exited" /\ exit_status = EXIT_FAILURE)

\* ------------------------------------------------------------ chunks and runs

\* The number of input bytes the first n written chunks stand for, and the
\* number of output bytes they take.
RECURSIVE CoveredBy(_, _)
CoveredBy(calls, n) ==
    IF n = 0 THEN 0 ELSE CoveredBy(calls, n - 1) + calls[n].count

RECURSIVE EncodedSize(_, _)
EncodedSize(calls, n) ==
    IF n = 0 THEN 0
    ELSE EncodedSize(calls, n - 1)
         + (IF calls[n].is_rle THEN 2 ELSE 1 + calls[n].count)

ChunkFirst(i) == CoveredBy(io.calls, i - 1) + 1
ChunkLast(i) == CoveredBy(io.calls, i)

\* Chunk i is a RUN chunk standing for exactly the input positions lo..hi,
\* written as the status byte 0x80|k and the byte.
IsRunChunkFor(i, lo, hi) ==
    /\ io.calls[i].is_rle
    /\ ChunkFirst(i) = lo
    /\ ChunkLast(i) = hi
    /\ io.calls[i].bytes = <<consumed[lo]>>
    /\ LET at == EncodedSize(io.calls, i - 1)
       IN  /\ Len(io.output) >= at + 2
           /\ io.output[at + 1] = 128 + (hi - lo + 1)
           /\ io.output[at + 2] = consumed[lo]

\* Chunk i is a LITERAL chunk standing for exactly the input positions
\* lo..hi, written as the status byte and those bytes in order.
IsLiteralChunkFor(i, lo, hi) ==
    /\ ~io.calls[i].is_rle
    /\ ChunkFirst(i) = lo
    /\ ChunkLast(i) = hi
    /\ io.calls[i].bytes = SubSeq(consumed, lo, hi)
    /\ LET at == EncodedSize(io.calls, i - 1)
       IN  /\ Len(io.output) >= at + 1 + (hi - lo + 1)
           /\ io.output[at + 1] = hi - lo + 1
           /\ SubSeq(io.output, at + 2, at + 1 + (hi - lo + 1))
                  = SubSeq(consumed, lo, hi)

\* The chunks with an input position in lo..hi.
ChunksTouching(lo, hi) ==
    {i \in DOMAIN io.calls : ChunkFirst(i) <= hi /\ ChunkLast(i) >= lo}

\* The maximal runs of two or more equal bytes of S, as <<first, last>>.
RunEnds(S) == {j \in 1..Len(S) : j = Len(S) \/ S[j + 1] # S[j]}
RunEnd(S, i) ==
    CHOOSE j \in RunEnds(S) :
        j >= i /\ \A k \in RunEnds(S) : k >= i => j <= k
MaximalRuns(S) ==
    {<<i, RunEnd(S, i)>> :
        i \in {k \in 1..(Len(S) - 1) :
                 S[k + 1] = S[k] /\ (k = 1 \/ S[k - 1] # S[k])}}

\* C5 (as claimed): every maximal run of 2..127 equal bytes is written as
\* exactly one RUN chunk, and no other chunk holds a byte of it.
C5_EveryRunIsOneRunChunk ==
    CompressDone =>
        \A r \in MaximalRuns(consumed) :
            r[2] - r[1] + 1 <= MAX_BLOCK_SIZE =>
                \E i \in DOMAIN io.calls :
                    /\ IsRunChunkFor(i, r[1], r[2])
                    /\ ChunksTouching(r[1], r[2]) = {i}

\* The first byte of the run at position p is the last payload byte of a full
\* LITERAL chunk: it was stored as the 127th byte of the pending block.
FillsBlock(p) ==
    \E i \in DOMAIN io.calls :
        /\ ~io.calls[i].is_rle
        /\ io.calls[i].count = MAX_BLOCK_SIZE
        /\ ChunkLast(i) = p

\* C5 (amended): every maximal run of 2..127 equal bytes is written as exactly
\* one RUN chunk, unless its first byte fills a 127-byte literal block; then
\* that byte is the block's last payload byte, and the other k-1 bytes are
\* one RUN chunk (k >= 3) or the first byte of the next literal chunk (k = 2).
C5_RunIsOneRunChunkUnlessBlockFull ==
    CompressDone =>
        \A r \in MaximalRuns(consumed) :
            r[2] - r[1] + 1 <= MAX_BLOCK_SIZE =>
                IF FillsBlock(r[1])
                THEN IF r[2] - r[1] + 1 >= 3
                     THEN \E i \in DOMAIN io.calls :
                              /\ IsRunChunkFor(i, r[1] + 1, r[2])
                              /\ ChunksTouching(r[1] + 1, r[2]) = {i}
                     ELSE \E i \in DOMAIN io.calls :
                              /\ ~io.calls[i].is_rle
                              /\ ChunkFirst(i) = r[2]
                ELSE \E i \in DOMAIN io.calls :
                         /\ IsRunChunkFor(i, r[1], r[2])
                         /\ ChunksTouching(r[1], r[2]) = {i}

\* C5 witness: a finished session whose input has a run of two or more equal
\* bytes after a literal stretch and before another byte, written as one RUN
\* chunk between two LITERAL chunks.
C5_Witness ==
    /\ CompressDone
    /\ \E r \in MaximalRuns(consumed) :
           /\ r[1] > 1
           /\ r[2] < Len(consumed)
           /\ ~FillsBlock(r[1])
           /\ \E i \in DOMAIN io.calls :
                  /\ i > 1
                  /\ i < Len(io.calls)
                  /\ IsRunChunkFor(i, r[1], r[2])

\* ------------------------------------------------------------ long inputs

AllEqual(S) == \A i \in 1..Len(S) : S[i] = S[1]
NoAdjacentEqual(S) == \A i \in 1..(Len(S) - 1) : S[i] # S[i + 1]

\* ceil(n / 127), and the length of the i-th of the chunks n bytes split into.
ChunksFor(n) == (n + MAX_BLOCK_SIZE - 1) \div MAX_BLOCK_SIZE
SplitLength(n, i) ==
    IF i * MAX_BLOCK_SIZE <= n THEN MAX_BLOCK_SIZE ELSE n % MAX_BLOCK_SIZE

\* C6 (as claimed): a run of n > 127 equal bytes as the whole input is written
\* as ceil(n/127) RUN chunks, each of length 127 except possibly the last.
C6_LongRunIsRunChunksOnly ==
    (CompressDone /\ Len(consumed) > MAX_BLOCK_SIZE /\ AllEqual(consumed)) =>
        /\ Len(io.calls) = ChunksFor(Len(consumed))
        /\ \A i \in DOMAIN io.calls :
               IsRunChunkFor(i, (i - 1) * MAX_BLOCK_SIZE + 1,
                             (i - 1) * MAX_BLOCK_SIZE
                                 + SplitLength(Len(consumed), i))

\* C6 (amended): a run of n > 127 equal bytes as the whole input is written as
\* ceil(n/127) chunks with lengths summing to n: floor(n/127) RUN chunks of
\* length 127, then, when n mod 127 is not 0, one chunk for the remainder,
\* which is a RUN chunk when n mod 127 >= 2 and a LITERAL chunk of the single
\* byte when n mod 127 = 1.
C6_LongRunSplits ==
    (CompressDone /\ Len(consumed) > MAX_BLOCK_SIZE /\ AllEqual(consumed)) =>
        /\ Len(io.calls) = ChunksFor(Len(consumed))
        /\ \A i \in DOMAIN io.calls :
               LET lo == (i - 1) * MAX_BLOCK_SIZE + 1
                   k  == SplitLength(Len(consumed), i)
               IN  IF k = 1
                   THEN IsLiteralChunkFor(i, lo, lo)
                   ELSE IsRunChunkFor(i, lo, lo + k - 1)

\* C6 witness: 300 equal bytes, written as RUN chunks of 127, 127 and 46.
C6_Witness ==
    /\ CompressDone
    /\ Len(consumed) = 300
    /\ AllEqual(consumed)
    /\ [i \in DOMAIN io.calls |-> io.calls[i].count] = <<127, 127, 46>>
    /\ \A i \in DOMAIN io.calls : io.calls[i].is_rle

\* C7: n bytes with no two adjacent bytes equal are written as LITERAL chunks
\* only, in input order: floor(n/127) chunks of 127 bytes, then one of
\* n mod 127 bytes when that is not 0.
C7_LongLiteralSplits ==
    (CompressDone /\ NoAdjacentEqual(consumed)) =>
        /\ Len(io.calls) = ChunksFor(Len(consumed))
        /\ \A i \in DOMAIN io.calls :
               IsLiteralChunkFor(i, (i - 1) * MAX_BLOCK_SIZE + 1,
                                 (i - 1) * MAX_BLOCK_SIZE
                                     + SplitLength(Len(consumed), i))

\* C7 witness: 300 bytes, no two adjacent equal, written as LITERAL chunks of
\* 127, 127 and 46.
C7_Witness ==
    /\ CompressDone
    /\ Len(consumed) = 300
    /\ NoAdjacentEqual(consumed)
    /\ [i \in DOMAIN io.calls |-> io.calls[i].count] = <<127, 127, 46>>
    /\ \A i \in DOMAIN io.calls : ~io.calls[i].is_rle

\* ------------------------------------------------------------ short inputs

\* C8: from the initial compress state, nothing is written for x and for
\* x, x; when y # x arrives after x, x exactly one RUN chunk (x, 2) is written
\* and the state is BLOCK with one pending byte: block = [y], last_byte = y.
C8_PairThenOther ==
    (is_compress_mode /\ pc = "loop") =>
        /\ (Len(consumed) = 1 \/ (Len(consumed) = 2 /\ AllEqual(consumed))) =>
               io.output = <<>> /\ io.calls = <<>>
        /\ (Len(consumed) = 3 /\ consumed[1] = consumed[2]
                /\ consumed[3] # consumed[1]) =>
               /\ io.calls = <<[is_rle |-> TRUE, count |-> 2,
                                bytes |-> <<consumed[1]>>]>>
               /\ io.output = <<128 + 2, consumed[1]>>
               /\ state.compress_state = "BLOCK"
               /\ state.compress_bytes_count = 1
               /\ state.block[0] = consumed[3]
               /\ state.last_byte = consumed[3]

\* C8 witness: the input 0x81, 0x81, 0x00 has been processed.
C8_Witness ==
    /\ is_compress_mode
    /\ pc = "loop"
    /\ consumed = <<129, 129, 0>>
    /\ io.output = <<130, 129>>

\* C9: a decompress step that reads, in the status state, a byte whose low 7
\* bits are 0 writes nothing, reports nothing and stays in the status state,
\* so that finalize right after it reports no format error.
ZeroStatusStep ==
    /\ ~is_compress_mode
    /\ pc = "loop"
    /\ state.decompress_state = "STATUS"
    /\ Len(consumed') = Len(consumed) + 1
    /\ LowBits(consumed'[Len(consumed')]) = 0

C9_ZeroLengthChunkTolerated ==
    [][ZeroStatusStep =>
          /\ io' = io
          /\ pc' = "loop"
          /\ state'.decompress_state = "STATUS"
          /\ honk_decompress_finalize(state', io') = io']_vars

\* C9 witness: 0x80 and 0x00 were read as status bytes, the run chunk after
\* them was decoded, and the stream ended well-formed.
C9_Witness ==
    /\ DecompressDone
    /\ consumed = <<128, 0, 131, 65>>
    /\ io.output = <<65, 65, 65>>
    /\ io.stderr = <<>>

\* C10: a session that ends on the empty input has written no byte and
\* reported no error, in compress mode and in decompress mode.
C10_EmptyInput ==
    (pc = "returned" /\ consumed = <<>>) =>
        /\ io.output = <<>>
        /\ io.stderr = <<>>
        /\ io.calls = <<>>
        /\ exit_status = EXIT_SUCCESS

\* C10 witness: init followed directly by finalize, in compress mode.
C10_Witness ==
    /\ CompressDone
    /\ consumed = <<>>
    /\ state = honk_compress_init(state.last_byte)

\* C11: for every byte b, compressing the input [b] writes nothing before
\* finalize and exactly the literal chunk [0x01, b] at finalize; a decompress
\* session over [0x01, b] writes [b] and ends in the status state without a
\* format error.
C11_SingleByte ==
    /\ (is_compress_mode /\ Len(consumed) = 1) =>
           /\ pc = "loop" => io.output = <<>>
           /\ pc = "returned" =>
                  /\ io.output = <<1, consumed[1]>>
                  /\ \A g \in GarbageBytes :
                         LET d == DecompressStream(io.output, g)
                         IN  /\ d.io.output = consumed
                             /\ d.state.decompress_state = "STATUS"
                             /\ d.io.stderr = <<>>
    /\ (~is_compress_mode /\ Len(consumed) = 2 /\ consumed[1] = 1
            /\ pc # "exited") =>
           /\ io.output = <<consumed[2]>>
           /\ state.decompress_state = "STATUS"
           /\ io.stderr = <<>>

\* C11 witness: the input [0x41] compressed to [0x01, 0x41].
C11_Witness ==
    /\ CompressDone
    /\ consumed = <<65>>
    /\ io.output = <<1, 65>>

\* C12: the complete output of a finished compress session is a concatenation
\* of whole chunks: a decompress session over it ends in the status state and
\* honk_decompress_finalize reports no format error.
C12_OutputEndsAtChunkBoundary ==
    CompressDone =>
        \A g \in GarbageBytes :
            LET d == DecompressStream(io.output, g)
            IN  /\ d.state.decompress_state = "STATUS"
                /\ d.io.stderr = <<>>
                /\ Len(io.output) = EncodedSize(io.calls, Len(io.calls))

\* C12 witness: a finished session that wrote at least three chunks, the last
\* one a run flushed at finalize.
C12_Witness ==
    /\ CompressDone
    /\ Len(io.calls) >= 3
    /\ state.compress_state = "RLE"
    /\ io.calls[Len(io.calls)].is_rle
    /\ DecompressStream(io.output, 129).state.decompress_state = "STATUS"

BadFormatReported == "bad format" \in {io.stderr[i] : i \in DOMAIN io.stderr}

\* C13: a decompress session that reached the end of its input is reported as
\* malformed if and only if its state is not the status state; before the end
\* of input nothing is reported.
C13_MalformedIffNotStatus ==
    ~is_compress_mode =>
        /\ pc = "returned" =>
               (BadFormatReported <=> state.decompress_state # "STATUS")
        /\ pc = "loop" => ~BadFormatReported

\* C13 witness: a literal block of 5 with only 3 payload bytes was reported.
C13_Witness ==
    /\ DecompressDone
    /\ consumed = <<5, 65, 65, 65>>
    /\ state.decompress_state = "BLOCK"
    /\ io.stderr = <<"bad format">>

\* ------------------------------------------------------------ single steps

\* A step of the read loop that processes one more input byte.
ReadsByte == pc = "loop" /\ Len(consumed') = Len(consumed) + 1
NewByte == consumed'[Len(consumed')]

\* C14: when the compressor is in BLOCK mode with p >= 1 pending bytes whose
\* last byte is x and the next byte is x, the step writes a LITERAL chunk
\* holding exactly the first p-1 pending bytes (nothing when p = 1) and enters
\* RUN mode with a count of 2 and last_byte = x.
C14_RepeatClosesBlock ==
    [][(/\ is_compress_mode
        /\ ReadsByte
        /\ state.compress_state = "BLOCK"
        /\ state.compress_bytes_count >= 1
        /\ NewByte = state.block[state.compress_bytes_count - 1])
       =>
       LET p == state.compress_bytes_count
           kept == BlockPrefix(state.block, p - 1)
       IN  /\ io'.calls = IF p = 1 THEN io.calls
                          ELSE Append(io.calls, [is_rle |-> FALSE,
                                                 count |-> p - 1,
                                                 bytes |-> kept])
           /\ io'.output = IF p = 1 THEN io.output
                           ELSE io.output \o <<p - 1>> \o kept
           /\ state'.compress_state = "RLE"
           /\ state'.compress_bytes_count = 2
           /\ state'.last_byte = NewByte]_vars

\* C14 witness: after 0x00, 'A', 0x81 the byte 0x81 arrived again: the
\* literal chunk [0x00, 'A'] was written and a run of two 0x81 is pending.
C14_Witness ==
    /\ is_compress_mode
    /\ pc = "loop"
    /\ consumed = <<0, 65, 129, 129>>
    /\ io.output = <<2, 0, 65>>
    /\ state.compress_state = "RLE"
    /\ state.compress_bytes_count = 2

\* The wire format read from position i of S, where a status byte is due:
\* the position of the status byte of the chunk S ends inside of, or 0 when S
\* ends at a chunk boundary.  A status byte with length 0 is a chunk of its
\* own, a run chunk takes 2 bytes, a literal chunk 1 + L bytes.
RECURSIVE OpenChunkFrom(_, _)
OpenChunkFrom(S, i) ==
    IF i > Len(S) THEN 0
    ELSE LET L == LowBits(S[i])
             size == IF L = 0 THEN 1 ELSE IF Bit7(S[i]) THEN 2 ELSE 1 + L
         IN  IF i + size - 1 > Len(S) THEN i
             ELSE OpenChunkFrom(S, i + size)

OpenChunk(S) == OpenChunkFrom(S, 1)

\* C15: when the stream read so far ends with a run status byte of length L
\* in 1..127, the decoder is in the run state, and the next byte b, whatever
\* its value, is written exactly L times and takes the decoder back to the
\* status state: the run chunk took exactly 2 input bytes.
C15_RunChunkDecoded ==
    [][(/\ ~is_compress_mode
        /\ ReadsByte
        /\ OpenChunk(consumed) # 0
        /\ Bit7(consumed[OpenChunk(consumed)]))
       =>
       LET L == LowBits(consumed[Len(consumed)])
       IN  /\ OpenChunk(consumed) = Len(consumed)
           /\ L \in 1..MAX_BLOCK_SIZE
           /\ state.decompress_state = "RLE"
           /\ io'.output = io.output \o [i \in 1..L |-> NewByte]
           /\ io'.stderr = io.stderr
           /\ state'.decompress_state = "STATUS"
           /\ OpenChunk(consumed') = 0]_vars

\* C15 witness: the run chunk [0xFF, 0x83] was decoded to 127 bytes 0x83.
C15_Witness ==
    /\ ~is_compress_mode
    /\ pc = "loop"
    /\ consumed = <<255, 131>>
    /\ io.output = [i \in 1..127 |-> 131]
    /\ state.decompress_state = "STATUS"

\* C16: when the stream read so far ends inside a literal chunk of length L
\* in 1..127 with k < L payload bytes read, the decoder is in the block state
\* and the next byte is written exactly once and unchanged, whatever its
\* value; the decoder stays in the block state after the first L-1 payload
\* bytes and is back in the status state exactly after the L-th.
C16_LiteralChunkDecoded ==
    [][(/\ ~is_compress_mode
        /\ ReadsByte
        /\ OpenChunk(consumed) # 0
        /\ ~Bit7(consumed[OpenChunk(consumed)]))
       =>
       LET L == consumed[OpenChunk(consumed)]
           k == Len(consumed) - OpenChunk(consumed)
       IN  /\ L \in 1..MAX_BLOCK_SIZE
           /\ k < L
           /\ state.decompress_state = "BLOCK"
           /\ io'.output = Append(io.output, NewByte)
           /\ io'.stderr = io.stderr
           /\ state'.decompress_state =
                  IF k + 1 = L THEN "STATUS" ELSE "BLOCK"
           /\ OpenChunk(consumed') =
                  IF k + 1 = L THEN 0 ELSE OpenChunk(consumed)]_vars

\* C16 witness: a literal chunk of 127 was decoded: after the status byte
\* 0x7F and 127 payload bytes the output is the payload and the decoder is in
\* the status state.
C16_Witness ==
    /\ ~is_compress_mode
    /\ pc = "loop"
    /\ Len(consumed) = MAX_BLOCK_SIZE + 1
    /\ consumed[1] = MAX_BLOCK_SIZE
    /\ io.output = SubSeq(consumed, 2, MAX_BLOCK_SIZE + 1)
    /\ state.decompress_state = "STATUS"

\* ------------------------------------------------------------ state invariants

RunCalls == {i \in DOMAIN io.calls : io.calls[i].is_rle}
LiteralCalls == {i \in DOMAIN io.calls : ~io.calls[i].is_rle}

\* C17: after init and after every honk_compress_process_byte call the count
\* is within 0..127; in RUN mode it is at least 2 and in BLOCK mode it is
\* below 127, the index the next byte is stored at; every RUN chunk written
\* declares a length of at least 2.
C17_CompressCountInRange ==
    is_compress_mode =>
        /\ state.compress_bytes_count \in 0..MAX_BLOCK_SIZE
        /\ state.compress_state = "RLE" => state.compress_bytes_count >= 2
        /\ state.compress_state = "BLOCK" =>
               state.compress_bytes_count < MAX_BLOCK_SIZE
        /\ \A i \in RunCalls : io.calls[i].count >= 2

\* C17 witness: a run of 126 bytes is pending: the next equal byte fills it.
C17_Witness ==
    /\ is_compress_mode
    /\ pc = "loop"
    /\ state.compress_state = "RLE"
    /\ state.compress_bytes_count = MAX_BLOCK_SIZE - 1
    /\ io.calls = <<>>

\* The bytes the compress state holds back: the pending block, or the
\* pending run.
Pending(st) ==
    IF st.compress_state = "BLOCK"
    THEN BlockPrefix(st.block, st.compress_bytes_count)
    ELSE [i \in 1..st.compress_bytes_count |-> st.last_byte]

\* C18: after any number of honk_compress_process_byte calls the input
\* consumed so far is the decoding of the bytes written so far followed by
\* the pending content.
C18_PrefixInvariant ==
    (is_compress_mode /\ pc = "loop") =>
        \A g \in GarbageBytes :
            consumed = DecompressStream(io.output, g).io.output
                           \o Pending(state)

\* C18 witness: more than 127 bytes consumed, chunks written, and a run
\* pending.
C18_Witness ==
    /\ is_compress_mode
    /\ pc = "loop"
    /\ Len(consumed) > MAX_BLOCK_SIZE
    /\ Len(io.calls) >= 2
    /\ state.compress_state = "RLE"
    /\ consumed = DecompressStream(io.output, 0).io.output \o Pending(state)

\* C19: in BLOCK mode with pending bytes, last_byte is the last pending byte
\* and no two adjacent pending bytes are equal; no LITERAL chunk written has
\* two adjacent equal payload bytes.
C19_BlockHasNoRepeat ==
    is_compress_mode =>
        /\ (state.compress_state = "BLOCK" /\ state.compress_bytes_count > 0) =>
               /\ state.last_byte = state.block[state.compress_bytes_count - 1]
               /\ NoAdjacentEqual(Pending(state))
        /\ \A i \in LiteralCalls : NoAdjacentEqual(io.calls[i].bytes)

\* C19 witness: a full literal chunk was written and a block of at least two
\* bytes is pending.
C19_Witness ==
    /\ is_compress_mode
    /\ pc = "loop"
    /\ state.compress_state = "BLOCK"
    /\ state.compress_bytes_count >= 2
    /\ \E i \in LiteralCalls : io.calls[i].count = MAX_BLOCK_SIZE

\* C20: whenever the decoder is in the run or the block state, the count of
\* bytes still expected is in 1..127 (the decrement never wraps), and the
\* block state is left after at most 127 payload bytes.
C20_DecompressCountInRange ==
    (~is_compress_mode /\ state.decompress_state # "STATUS") =>
        /\ state.decompress_bytes_count \in 1..MAX_BLOCK_SIZE
        /\ state.decompress_state = "BLOCK" =>
               /\ OpenChunk(consumed) # 0
               /\ Len(consumed) - OpenChunk(consumed) < MAX_BLOCK_SIZE
               /\ state.decompress_bytes_count
                      = consumed[OpenChunk(consumed)]
                            - (Len(consumed) - OpenChunk(consumed))

\* C20 witness: 126 payload bytes of a literal chunk of 127 were read and one
\* more is expected.
C20_Witness ==
    /\ ~is_compress_mode
    /\ pc = "loop"
    /\ state.decompress_state = "BLOCK"
    /\ state.decompress_bytes_count = 1
    /\ Len(consumed) = MAX_BLOCK_SIZE

TypeOK ==
    /\ is_compress_mode \in BOOLEAN
    /\ pc \in {"loop", "returned", "exited"}
    /\ exit_status \in {EXIT_SUCCESS, EXIT_FAILURE}

====
